---- MODULE Spec2Model ----
(***************************************************************************)
(* Model of the staged answer-assembly pipeline of the AlphaOPT front end  *)
(* (src/src/components/ChatInterface.js, second definition of the          *)
(* component, lines 243-678): one mounted ChatInterface is one session.    *)
(*                                                                         *)
(* JavaScript values are tagged records, so that values of different       *)
(* JavaScript types can be compared:                                       *)
(*   null            [tag |-> "null"]                                      *)
(*   a string        [tag |-> "string", s |-> ...]                         *)
(*   an array        [tag |-> "array", items |-> <<...>>]                  *)
(*   an object       [tag |-> "object", ...]                               *)
(* A text typed by the user or carried by a problem is a sequence of       *)
(* characters, so that String.prototype.trim is computed, not assumed.     *)
(***************************************************************************)
EXTENDS Integers, Sequences, FiniteSets, TLC

(***************************************************************************)
(* Bounds of the model.                                                    *)
(***************************************************************************)
\* pipeline runs per session (one submit, then regenerations)
MaxRuns == 3
\* length of a problem text or of the input field
MaxTextLen == 1
\* largest advance of Date.now() between two readings
MaxTick == 1
MaxRenderLen == 4
MaxConstraints == 2
MaxLeaves == 2

(***************************************************************************)
(* JavaScript values.                                                      *)
(***************************************************************************)
Null == [tag |-> "null"]
Str(s) == [tag |-> "string", s |-> s]
Arr(items) == [tag |-> "array", items |-> items]
Text(chars) == [tag |-> "text", chars |-> chars]

Chars == {" ", "a"}
Texts == UNION {[1..n -> Chars] : n \in 0..MaxTextLen}

\* JavaScript truthiness of a string: the empty string (and undefined, which
\* is modelled as the empty text) is falsy.
Truthy(t) == Len(t) > 0

RECURSIVE trimStart(_)
trimStart(t) == IF Len(t) > 0 /\ Head(t) = " " THEN trimStart(Tail(t)) ELSE t

RECURSIVE trimEnd(_)
trimEnd(t) ==
  IF Len(t) > 0 /\ t[Len(t)] = " " THEN trimEnd(SubSeq(t, 1, Len(t) - 1)) ELSE t

trim(t) == trimEnd(trimStart(t))

(***************************************************************************)
(* The problem handed to the component (App.js, ProblemSelector.js).       *)
(***************************************************************************)
NumId(n) == [type |-> "number", n |-> n]
StrId(s) == [type |-> "string", s |-> s]
CustomId == StrId("custom")
idToString(id) == IF id.type = "number" THEN ToString(id.n) ELSE id.s

\* ProblemSelector.handleCustomSubmit: an ad-hoc problem carries the trimmed,
\* non-empty text of the textarea.
handleCustomSubmit(customInput) ==
  [id |-> CustomId, description |-> trim(customInput)]

\* Problems a session can be opened with: a catalogue entry (any description)
\* or an ad-hoc problem.
Problems ==
  {[id |-> i, description |-> d] : i \in {NumId(1), NumId(2)}, d \in Texts}
    \cup {handleCustomSubmit(c) : c \in {t \in Texts : Truthy(trim(t))}}

(***************************************************************************)
(* TaxonomyNormalizer: transformTaxonomy / flattenTaxonomy.                *)
(* An object is the sequence of its entries in Object.entries order.       *)
(***************************************************************************)
Obj(entries) == [tag |-> "object", entries |-> entries]

RECURSIVE join(_)
join(segs) ==
  IF Len(segs) = 0 THEN ""
  ELSE IF Len(segs) = 1 THEN segs[1]
  ELSE segs[1] \o " > " \o join(Tail(segs))

slice1(segs) == IF Len(segs) = 0 THEN <<>> ELSE Tail(segs)

RECURSIVE flattenFrom(_, _, _)
flattenTaxonomy(obj, path) == flattenFrom(obj.entries, 1, path)
\* as flattenFrom when a later nested entry replaces the result of an
\* earlier one (the entries are taken from the last to the first)
RECURSIVE flattenFrom_lastWins(_, _, _)
flattenFrom_lastWins(entries, k, path) ==
  IF k > Len(entries) THEN join(slice1(path))
  ELSE LET key == entries[Len(entries) - k + 1][1]
           value == entries[Len(entries) - k + 1][2]
       IN IF value.tag = "object"
            THEN flattenFrom_lastWins(value.entries, 1, Append(path, key))
          ELSE IF value.tag = "array"
            THEN join(slice1(Append(path, key) \o value.items))
          ELSE flattenFrom_lastWins(entries, k + 1, path)
flattenFrom(entries, k, path) ==
  IF k > Len(entries) THEN join(slice1(path))
  ELSE LET key == entries[k][1]
           value == entries[k][2]
       IN IF value.tag = "object"
            THEN flattenFrom(value.entries, 1, Append(path, key))
          ELSE IF value.tag = "array"
            THEN join(slice1(Append(path, key) \o value.items))
          ELSE flattenFrom(entries, k + 1, path)

transformTaxonomy_flattenStrings(taxonomy) ==
  IF taxonomy.tag = "string" THEN Str("")
  ELSE Str(flattenTaxonomy(taxonomy, <<>>))

transformTaxonomy(taxonomy) ==
  IF taxonomy.tag = "string" THEN taxonomy
  ELSE Str(flattenTaxonomy(taxonomy, <<>>))

(***************************************************************************)
(* Artifacts the remote service and the canned record can deliver.         *)
(***************************************************************************)
toLowerCaseChar(c) ==
  CASE c = "D" -> "d" [] c = "F" -> "f" [] c = "C" -> "c" [] OTHER -> c
toLowerCase(w) == [k \in 1..Len(w) |-> toLowerCaseChar(w[k])]

RawTaxonomy ==
  Obj(<< <<"Root", Obj(<< <<"General Formulation",
             Obj(<< <<"Variable Definition", Arr(<<"Leaf">>)>> >>)>> >>)>> >>)

RawInsight ==
  [category |-> <<"D", "o">>, taxonomy |-> RawTaxonomy, explanation |-> "e"]

transformInsight(insight) ==
  [insight EXCEPT !.category = toLowerCase(insight.category),
                  !.taxonomy = transformTaxonomy(insight.taxonomy)]

transformInsights(list) ==
  Arr([k \in 1..Len(list.items) |-> transformInsight(list.items[k])])

InsightLists == {Arr(<<>>), Arr(<<RawInsight>>)}
Formulations ==
  {Str("f"),
   [tag |-> "object", objective |-> "o", constraints |-> <<"c1">>,
    variables |-> "v"]}
Codes == {Str("code")}
Solutions ==
  {Str("s"),
   [tag |-> "object", status |-> "Optimal", variables |-> <<>>,
    objective |-> "1", details |-> "d"]}

Answers ==
  [insights : InsightLists, formulation : Formulations, code : Codes,
   solution : Solutions]

\* Content of /default_answers.json: a keyed record, which may lack the key.
DefaultAnswerFiles ==
  {[k \in {"1"} |-> a] : a \in Answers}
    \cup {[k \in {"2"} |-> CHOOSE a \in Answers : TRUE]}

Stages == <<"insights", "formulation", "code", "solution">>
StagePayloads(k) ==
  CASE k = 1 -> InsightLists [] k = 2 -> Formulations [] k = 3 -> Codes
    [] k = 4 -> Solutions

(***************************************************************************)
(* State.                                                                  *)
(***************************************************************************)
VARIABLES
  initialProblem,      \* prop of the component
  defaultAnswers,      \* static file /default_answers.json
  messages,            \* useState([])
  input,               \* useState('')
  isLoading,           \* useState(false)
  originalQuestion,    \* useState('')
  initialMessageSent,  \* useRef(false)
  clock,               \* last reading of Date.now(), counted from mount
  runs,                \* the pipeline runs whose promise is not yet dropped
  started,             \* number of pipeline runs started in the session
  shown,               \* message.content handed to a Message component
  dom,                 \* what that Message component has rendered
  solutionDom,         \* what it has rendered in its solution section
  taxonomy,            \* insight.taxonomy handed to transformTaxonomy
  taxonomyPath         \* what transformTaxonomy has returned for it

vars ==
  <<initialProblem, defaultAnswers, messages, input, isLoading,
    originalQuestion, initialMessageSent, clock, runs, started, shown, dom,
    solutionDom, taxonomy, taxonomyPath>>

\* the variables of the Message component, idle while a session is explored
messageVars == <<shown, dom, solutionDom>>
\* the variables of one transformTaxonomy call, idle otherwise
normalizerVars == <<taxonomy, taxonomyPath>>
NotNormalized == [tag |-> "pending"]
NoContent == [formulation |-> Null, solution |-> Null, source |-> "undefined"]
\* dom is one box per rendered formulation field, each a sequence of nodes
NotRendered == <<<<[kind |-> "unrendered"]>>>>

Init ==
  /\ initialProblem \in Problems
  /\ defaultAnswers \in DefaultAnswerFiles
  /\ messages = <<>>
  /\ input = <<>>
  /\ isLoading = FALSE
  /\ originalQuestion = <<>>
  /\ initialMessageSent = FALSE
  /\ clock = 0
  /\ runs = <<>>
  /\ started = 0
  /\ shown = NoContent
  /\ dom = NotRendered
  /\ solutionDom = NotRendered[1]
  /\ taxonomy = Null
  /\ taxonomyPath = NotNormalized


(***************************************************************************)
(* Conversation entries and the content objects the handlers build.        *)
(***************************************************************************)
\* lines 461-466, 529-534: the pending content (no source field)
PendingContent ==
  [insights |-> Null, formulation |-> Null, code |-> Null, solution |-> Null]

\* lines 347-353 and 304-310: the result object local to one run
InitialResult(source) ==
  [insights |-> Null, formulation |-> Null, code |-> Null, solution |-> Null,
   source |-> source]

\* lines 500-510, 568-578: the error content (no source field)
ErrorContent_plainSolution ==
  [insights |-> Arr(<<>>), formulation |-> Str("Error"), code |-> Str(""),
   solution |-> Str("Error")]

ErrorDetails ==
  "Failed to connect to the solver API. Please make sure the backend server is running."
ErrorSolution ==
  [tag |-> "object", status |-> "Error", variables |-> <<>>,
   objective |-> "", details |-> ErrorDetails]
ErrorContent ==
  [insights |-> Arr(<<>>), formulation |-> Str("Error"), code |-> Str(""),
   solution |-> ErrorSolution]

UserMessage(id, textToSend) ==
  [id |-> id, type |-> "user", content |-> Text(textToSend)]
AssistantMessage_noInsights(id) ==
  [id |-> id, type |-> "assistant",
   content |-> [PendingContent EXCEPT !.insights = Arr(<<>>)]]

AssistantMessage(id) ==
  [id |-> id, type |-> "assistant", content |-> PendingContent]

\* prev.map(msg => msg.id === assistantMessageId ? {...msg, content} : msg)
updateContent(prev, assistantMessageId, content) ==
  [k \in 1..Len(prev) |->
     IF prev[k].id = assistantMessageId
       THEN [prev[k] EXCEPT !.content = content]
       ELSE prev[k]]

\* prev.slice(0, -1)
sliceLast_none(prev) == prev

sliceLast(prev) == IF Len(prev) = 0 THEN <<>> ELSE SubSeq(prev, 1, Len(prev) - 1)

\* the body of one fetch of a stage endpoint (lines 356-362 and alike)
ApiRequest_noFlag(k, userMessage, isRegenerate) ==
  [url |-> "/api/solve/" \o Stages[k], problem |-> userMessage,
   regenerate |-> FALSE]

ApiRequest(k, userMessage, isRegenerate) ==
  [url |-> "/api/solve/" \o Stages[k], problem |-> userMessage,
   regenerate |-> isRegenerate]
FileRequest == [url |-> "/default_answers.json"]

\* lines 592-594
hasAnswer_noLoading == Len(messages) >= 2

hasAnswer == Len(messages) >= 2 /\ ~isLoading
showInputForm == Len(messages) = 0

\* lines 474 and 542
useDefaultAnswer_anyNumber == initialProblem.id.type = "number"

useDefaultAnswer == initialProblem.id = NumId(1)

(***************************************************************************)
(* A pipeline run: the activation of callSolverAPI or loadDefaultAnswer    *)
(* awaited by handleSendMessage or handleRegenerate, up to its first       *)
(* suspension point.                                                       *)
(***************************************************************************)
\* n is the serial number of the run in the session; id is the entry id
\* captured by the onProgress closure the handler passes.  requests lists the
\* fetches issued, received the stage values obtained, timers the delays of
\* the timers set, payloads the arguments of the calls of onProgress.
callSolverAPI_parallel(n, assistantMessageId, kind, userMessage, isRegenerate) ==
  [n |-> n, id |-> assistantMessageId, kind |-> kind, source |-> "api",
   pc |-> "fetch", stage |-> 1, text |-> userMessage,
   isRegenerate |-> isRegenerate, result |-> InitialResult("api"),
   answer |-> Null,
   requests |-> [k \in 1..4 |-> ApiRequest(k, userMessage, isRegenerate)],
   received |-> <<>>, timers |-> <<>>,
   payloads |-> <<>>, failure |-> "none"]

callSolverAPI_resume(n, assistantMessageId, kind, userMessage, isRegenerate) ==
  [n |-> n, id |-> assistantMessageId, kind |-> kind, source |-> "api",
   pc |-> "fetch", stage |-> IF isRegenerate THEN 2 ELSE 1,
   text |-> userMessage,
   isRegenerate |-> isRegenerate, result |-> InitialResult("api"),
   answer |-> Null,
   requests |-> <<ApiRequest(IF isRegenerate THEN 2 ELSE 1, userMessage,
                             isRegenerate)>>,
   received |-> <<>>, timers |-> <<>>,
   payloads |-> <<>>, failure |-> "none"]

callSolverAPI(n, assistantMessageId, kind, userMessage, isRegenerate) ==
  [n |-> n, id |-> assistantMessageId, kind |-> kind, source |-> "api",
   pc |-> "fetch", stage |-> 1, text |-> userMessage,
   isRegenerate |-> isRegenerate, result |-> InitialResult("api"),
   answer |-> Null,
   requests |-> <<ApiRequest(1, userMessage, isRegenerate)>>,
   received |-> <<>>, timers |-> <<>>,
   payloads |-> <<>>, failure |-> "none"]

loadDefaultAnswer(n, assistantMessageId, kind, text) ==
  [n |-> n, id |-> assistantMessageId, kind |-> kind, source |-> "default",
   pc |-> "file_fetch", stage |-> 0, text |-> text,
   isRegenerate |-> (kind = "regenerate"),
   result |-> InitialResult("default"), answer |-> Null,
   requests |-> <<FileRequest>>, received |-> <<>>, timers |-> <<>>,
   payloads |-> <<>>, failure |-> "none"]

\* the activation started by a handler; after records how the run before
\* it ended ("none" for the first run of the session)
activation(assistantMessageId, kind, text) ==
  IF useDefaultAnswer
    THEN loadDefaultAnswer(started + 1, assistantMessageId, kind, text)
    ELSE callSolverAPI(started + 1, assistantMessageId, kind, text,
                       kind = "regenerate")

startRun(assistantMessageId, kind, text) ==
  LET r == activation(assistantMessageId, kind, text)
      after == IF Len(runs) = 0 THEN "none" ELSE runs[Len(runs)].pc
  IN [f \in DOMAIN r \cup {"after"} |-> IF f = "after" THEN after ELSE r[f]]

InFlight(r) == r.pc \notin {"done", "failed"}

\* A settled run has no continuation left: when a handler starts a run, the
\* settled runs are dropped and the runs still in flight are kept.
unsettled(rs) == SelectSeq(rs, InFlight)

(***************************************************************************)
(* Handlers.                                                               *)
(***************************************************************************)
\* lines 438-470 and the synchronous start of lines 472-492
handleSendMessage(messageText) ==
  LET textToSend == IF Truthy(messageText) THEN messageText ELSE trim(input)
  IN IF ~Truthy(textToSend)
       THEN UNCHANGED <<messages, input, isLoading, originalQuestion, clock,
                        runs, started>>
       ELSE \E d \in 0..MaxTick :
              LET userId == clock
                  assistantMessageId == (clock + d) + 1
              IN /\ started < MaxRuns
                 /\ started' = started + 1
                 /\ originalQuestion' = textToSend
                 /\ messages' = Append(Append(messages,
                                    UserMessage(userId, textToSend)),
                                    AssistantMessage(assistantMessageId))
                 /\ input' = <<>>
                 /\ isLoading' = TRUE
                 /\ clock' = clock + d
                 /\ runs' = Append(unsettled(runs),
                              startRun(assistantMessageId, "submit", textToSend))

\* lines 267-273
useEffectInitialProblem ==
  /\ ~initialMessageSent
  /\ initialMessageSent' = TRUE
  /\ handleSendMessage(initialProblem.description)
  /\ UNCHANGED <<initialProblem, defaultAnswers>>

\* lines 630-634: typing in the textarea of the input form.  React flushes
\* the mount effect before it handles a user event, hence initialMessageSent.
onChangeInput ==
  /\ initialMessageSent
  /\ showInputForm
  /\ \E t \in Texts : input' = t
  /\ UNCHANGED <<initialProblem, defaultAnswers, messages, isLoading,
                 originalQuestion, initialMessageSent, clock, runs, started>>

\* lines 587-590, reached by the Enter key (lines 635-640) or the form
handleSubmit ==
  /\ initialMessageSent
  /\ showInputForm
  /\ handleSendMessage(<<>>)
  /\ UNCHANGED <<initialProblem, defaultAnswers, initialMessageSent>>

\* line 552: the text handleRegenerate passes to callSolverAPI
regenerateQuestion_input == trim(input)

regenerateQuestion == originalQuestion

\* lines 519-560, offered by the button of lines 659-672
handleRegenerate ==
  /\ hasAnswer
  /\ started < MaxRuns
  /\ started' = started + 1
  /\ \E d \in 0..MaxTick :
       LET assistantMessageId == clock + d
       IN /\ messages' = Append(sliceLast(messages),
                                AssistantMessage(assistantMessageId))
          /\ isLoading' = TRUE
          /\ clock' = clock + d
          /\ runs' = Append(unsettled(runs),
                       startRun(assistantMessageId, "regenerate",
                                regenerateQuestion))
  /\ UNCHANGED <<initialProblem, defaultAnswers, input, originalQuestion,
                 initialMessageSent>>

(***************************************************************************)
(* Steps of a run: each step is the continuation that runs when the        *)
(* awaited promise settles, up to the next suspension point.               *)
(***************************************************************************)
\* the onProgress callbacks of lines 475-482, 484-490, 543-550, 552-558
onProgress_skip(prev, assistantMessageId, progressData) == prev

onProgress(prev, assistantMessageId, progressData) ==
  updateContent(prev, assistantMessageId, progressData)

\* catch of callSolverAPI / loadDefaultAnswer (rethrow), then the catch and
\* the finally of the handler: lines 493-516 and 561-584
catchError_retry(i, cause) ==
  /\ messages' = updateContent(messages, runs[i].id, ErrorContent)
  /\ isLoading' = FALSE
  /\ runs' = [runs EXCEPT ![i].failure = cause]
  /\ UNCHANGED <<initialProblem, defaultAnswers, input, originalQuestion,
                 initialMessageSent, clock, started>>

catchError(i, cause) ==
  /\ messages' = updateContent(messages, runs[i].id, ErrorContent)
  /\ isLoading' = FALSE
  /\ runs' = [runs EXCEPT ![i].pc = "failed", ![i].failure = cause]
  /\ UNCHANGED <<initialProblem, defaultAnswers, input, originalQuestion,
                 initialMessageSent, clock, started>>

\* result.<stage> = value; the stage field written by the k-th completion
mergeStage_swapped(result, k, value) ==
  CASE k = 1 -> [result EXCEPT !.insights = transformInsights(value)]
    [] k = 2 -> [result EXCEPT !.code = value]
    [] k = 3 -> [result EXCEPT !.formulation = value]
    [] k = 4 -> [result EXCEPT !.solution = value]

mergeStage(result, k, value) ==
  CASE k = 1 -> [result EXCEPT !.insights = transformInsights(value)]
    [] k = 2 -> [result EXCEPT !.formulation = value]
    [] k = 3 -> [result EXCEPT !.code = value]
    [] k = 4 -> [result EXCEPT !.solution = value]

\* lines 313, 324, 329, 334: setTimeout(resolve, 3000)
StageDelay == 3000
nextTimers(timers, nextPc) ==
  IF nextPc = "timer" THEN Append(timers, StageDelay) ELSE timers

\* the continuation after a stage value is available: merge, onProgress,
\* then either the next suspension point or return and the finally
completeStage_earlyUnlock(i, value, nextPc, nextRequests) ==
  LET r == runs[i]
      result == mergeStage(r.result, r.stage, value)
  IN /\ messages' = onProgress(messages, r.id, result)
     /\ isLoading' = FALSE
     /\ IF r.stage < 4
          THEN runs' = [runs EXCEPT ![i].result = result,
                                    ![i].payloads = Append(@, result),
                                    ![i].stage = r.stage + 1,
                                    ![i].pc = nextPc,
                                    ![i].received = Append(@, value),
                                    ![i].timers = nextTimers(@, nextPc),
                                    ![i].requests = @ \o nextRequests]
          ELSE runs' = [runs EXCEPT ![i].result = result,
                                    ![i].payloads = Append(@, result),
                                    ![i].received = Append(@, value),
                                    ![i].pc = "done"]
     /\ UNCHANGED <<initialProblem, defaultAnswers, input, originalQuestion,
                    initialMessageSent, clock, started>>

completeStage(i, value, nextPc, nextRequests) ==
  LET r == runs[i]
      result == mergeStage(r.result, r.stage, value)
  IN /\ messages' = onProgress(messages, r.id, result)
     /\ IF r.stage < 4
          THEN /\ runs' = [runs EXCEPT ![i].result = result,
                                       ![i].payloads = Append(@, result),
                                       ![i].stage = r.stage + 1,
                                       ![i].pc = nextPc,
                                       ![i].received = Append(@, value),
                                       ![i].timers = nextTimers(@, nextPc),
                                       ![i].requests = @ \o nextRequests]
               /\ UNCHANGED isLoading
          ELSE /\ runs' = [runs EXCEPT ![i].result = result,
                                       ![i].payloads = Append(@, result),
                                       ![i].received = Append(@, value),
                                       ![i].pc = "done"]
               /\ isLoading' = FALSE
     /\ UNCHANGED <<initialProblem, defaultAnswers, input, originalQuestion,
                    initialMessageSent, clock, started>>

\* await fetch(...) resolves with response.ok (lines 356-366 and alike)
apiResponseOk(i) ==
  /\ runs[i].pc = "fetch"
  /\ runs' = [runs EXCEPT ![i].pc = "json"]
  /\ UNCHANGED <<initialProblem, defaultAnswers, messages, input, isLoading,
                 originalQuestion, initialMessageSent, clock, started>>

\* await fetch(...) resolves with !response.ok: throw new Error('API error')
apiResponseStatus(i) ==
  /\ runs[i].pc = "fetch"
  /\ catchError(i, "status")

\* await fetch(...) rejects: network unreachable, DNS, timeout
apiResponseTransport(i) ==
  /\ runs[i].pc = "fetch"
  /\ catchError(i, "transport")

\* await response.json() resolves (lines 368-378, 393-395, 410-412, 427-431)
apiBodyOk(i) ==
  /\ runs[i].pc = "json"
  /\ \E value \in StagePayloads(runs[i].stage) :
       completeStage(i, value, "fetch",
         IF runs[i].stage < 4
           THEN <<ApiRequest(runs[i].stage + 1, runs[i].text,
                             runs[i].isRegenerate)>>
           ELSE <<>>)

\* await response.json() rejects: the body is not received or is not JSON
apiBodyFail(i) ==
  /\ runs[i].pc = "json"
  /\ catchError(i, "body")

\* line 296: await fetch('/default_answers.json') resolves (no status check)
fileResponseOk(i) ==
  /\ runs[i].pc = "file_fetch"
  /\ runs' = [runs EXCEPT ![i].pc = "file_json"]
  /\ UNCHANGED <<initialProblem, defaultAnswers, messages, input, isLoading,
                 originalQuestion, initialMessageSent, clock, started>>

\* line 296: the fetch rejects
fileResponseTransport(i) ==
  /\ runs[i].pc = "file_fetch"
  /\ catchError(i, "transport")

\* lines 297-313: the file is parsed, the record is found, first timer set
fileBodyFound_noTimer(i) ==
  /\ runs[i].pc = "file_json"
  /\ idToString(initialProblem.id) \in DOMAIN defaultAnswers
  /\ runs' = [runs EXCEPT ![i].pc = "timer", ![i].stage = 1,
                          ![i].answer =
                             defaultAnswers[idToString(initialProblem.id)]]
  /\ UNCHANGED <<initialProblem, defaultAnswers, messages, input, isLoading,
                 originalQuestion, initialMessageSent, clock, started>>

fileBodyFound(i) ==
  /\ runs[i].pc = "file_json"
  /\ idToString(initialProblem.id) \in DOMAIN defaultAnswers
  /\ runs' = [runs EXCEPT ![i].pc = "timer", ![i].stage = 1,
                          ![i].timers = nextTimers(@, "timer"),
                          ![i].answer =
                             defaultAnswers[idToString(initialProblem.id)]]
  /\ UNCHANGED <<initialProblem, defaultAnswers, messages, input, isLoading,
                 originalQuestion, initialMessageSent, clock, started>>

\* lines 299-302: no record under the key: throw new Error('No default ...')
fileBodyMissing_silent(i) ==
  /\ runs[i].pc = "file_json"
  /\ idToString(initialProblem.id) \notin DOMAIN defaultAnswers
  /\ isLoading' = FALSE
  /\ runs' = [runs EXCEPT ![i].pc = "failed", ![i].failure = "data"]
  /\ UNCHANGED <<initialProblem, defaultAnswers, messages, input,
                 originalQuestion, initialMessageSent, clock, started>>

fileBodyMissing(i) ==
  /\ runs[i].pc = "file_json"
  /\ idToString(initialProblem.id) \notin DOMAIN defaultAnswers
  /\ catchError(i, "data")

\* line 297: await response.json() rejects (for instance a 404 page)
fileBodyFail(i) ==
  /\ runs[i].pc = "file_json"
  /\ catchError(i, "body")

\* lines 313-338: one setTimeout(resolve, 3000) expires
stageValue_shifted(answer, k) ==
  CASE k = 1 -> answer.insights [] k = 2 -> answer.code
    [] k = 3 -> answer.code [] k = 4 -> answer.solution

stageValue(answer, k) ==
  CASE k = 1 -> answer.insights [] k = 2 -> answer.formulation
    [] k = 3 -> answer.code [] k = 4 -> answer.solution

timerExpires(i) ==
  /\ runs[i].pc = "timer"
  /\ completeStage(i, stageValue(runs[i].answer, runs[i].stage), "timer", <<>>)

Next ==
  \/ useEffectInitialProblem /\ UNCHANGED <<messageVars, normalizerVars>>
  \/ onChangeInput /\ UNCHANGED <<messageVars, normalizerVars>>
  \/ handleSubmit /\ UNCHANGED <<messageVars, normalizerVars>>
  \/ handleRegenerate /\ UNCHANGED <<messageVars, normalizerVars>>
  \/ \E i \in DOMAIN runs : apiResponseOk(i) /\ UNCHANGED <<messageVars, normalizerVars>>
  \/ \E i \in DOMAIN runs : apiResponseStatus(i) /\ UNCHANGED <<messageVars, normalizerVars>>
  \/ \E i \in DOMAIN runs : apiResponseTransport(i) /\ UNCHANGED <<messageVars, normalizerVars>>
  \/ \E i \in DOMAIN runs : apiBodyOk(i) /\ UNCHANGED <<messageVars, normalizerVars>>
  \/ \E i \in DOMAIN runs : apiBodyFail(i) /\ UNCHANGED <<messageVars, normalizerVars>>
  \/ \E i \in DOMAIN runs : fileResponseOk(i) /\ UNCHANGED <<messageVars, normalizerVars>>
  \/ \E i \in DOMAIN runs : fileResponseTransport(i) /\ UNCHANGED <<messageVars, normalizerVars>>
  \/ \E i \in DOMAIN runs : fileBodyFound(i) /\ UNCHANGED <<messageVars, normalizerVars>>
  \/ \E i \in DOMAIN runs : fileBodyMissing(i) /\ UNCHANGED <<messageVars, normalizerVars>>
  \/ \E i \in DOMAIN runs : fileBodyFail(i) /\ UNCHANGED <<messageVars, normalizerVars>>
  \/ \E i \in DOMAIN runs : timerExpires(i) /\ UNCHANGED <<messageVars, normalizerVars>>

Spec == Init /\ [][Next]_vars

\* Every issued request and every timer eventually settles, and React runs
\* the mount effect; the user is free never to type, submit or regenerate.
runStep(i) ==
  \/ apiResponseOk(i) \/ apiResponseStatus(i) \/ apiResponseTransport(i)
  \/ apiBodyOk(i) \/ apiBodyFail(i)
  \/ fileResponseOk(i) \/ fileResponseTransport(i)
  \/ fileBodyFound(i) \/ fileBodyMissing(i) \/ fileBodyFail(i)
  \/ timerExpires(i)

FairSpec ==
  /\ Spec
  /\ WF_vars(useEffectInitialProblem /\ UNCHANGED <<messageVars, normalizerVars>>)
  /\ WF_vars((\E i \in DOMAIN runs : runStep(i)) /\ UNCHANGED <<messageVars, normalizerVars>>)

(***************************************************************************)
(* ContentSanitizer (src/src/components/Message.js).  A string is a        *)
(* sequence of characters; a character is a one-character string, except   *)
(* the non-ASCII glyphs, written "LE" (U+2264), "GE" (U+2265), "SUM"       *)
(* (U+2211), "FORALL" (U+2200), "IN" (U+2208), "REALS" (U+211D), "INTS"    *)
(* (U+2124) and "TIMES" (U+00D7).                                          *)
(***************************************************************************)
WhitespaceChars == {" ", "\n", "\t"}
Letters ==
  {"a", "b", "c", "d", "e", "f", "g", "h", "i", "j", "k", "l", "m", "n", "o",
   "p", "q", "r", "s", "t", "u", "v", "w", "x", "y", "z",
   "A", "B", "C", "D", "E", "F", "G", "H", "I", "J", "K", "L", "M", "N", "O",
   "P", "Q", "R", "S", "T", "U", "V", "W", "X", "Y", "Z"}

\* the pattern p occurs in t at index i
startsWithAt(t, i, p) ==
  /\ i >= 1
  /\ i + Len(p) - 1 <= Len(t)
  /\ \A k \in 1..Len(p) : t[i + k - 1] = p[k]

\* index of the first occurrence of p in t at or after i, 0 if none
RECURSIVE indexOfFrom(_, _, _)
indexOfFrom(t, p, i) ==
  IF i + Len(p) - 1 > Len(t) THEN 0
  ELSE IF startsWithAt(t, i, p) THEN i
  ELSE indexOfFrom(t, p, i + 1)

\* RegExp.prototype.test for a pattern without metacharacters
contains(t, p) == indexOfFrom(t, p, 1) # 0

\* (t.match(/p/g) || []).length for a pattern without metacharacters
RECURSIVE countFrom(_, _, _)
countFrom(t, p, i) ==
  LET j == indexOfFrom(t, p, i)
  IN IF j = 0 THEN 0 ELSE 1 + countFrom(t, p, j + Len(p))
matchCount(t, p) == countFrom(t, p, 1)

\* t.replace(/p/g, r) for a pattern without metacharacters
RECURSIVE replaceFrom(_, _, _, _)
replaceFrom(t, p, r, i) ==
  LET j == indexOfFrom(t, p, i)
  IN IF j = 0 THEN SubSeq(t, i, Len(t))
     ELSE SubSeq(t, i, j - 1) \o r \o replaceFrom(t, p, r, j + Len(p))
replaceAll(t, p, r) == replaceFrom(t, p, r, 1)

\* the i flag of a regular expression: both sides are compared in lower case
lowerChar(c) ==
  LET upper == <<"A", "B", "C", "D", "E", "F", "G", "H", "I", "J", "K", "L",
                 "M", "N", "O", "P", "Q", "R", "S", "T", "U", "V", "W", "X",
                 "Y", "Z">>
      lower == <<"a", "b", "c", "d", "e", "f", "g", "h", "i", "j", "k", "l",
                 "m", "n", "o", "p", "q", "r", "s", "t", "u", "v", "w", "x",
                 "y", "z">>
  IN IF \E k \in 1..26 : upper[k] = c
       THEN lower[CHOOSE k \in 1..26 : upper[k] = c]
       ELSE c
lowerString(t) == [k \in 1..Len(t) |-> lowerChar(t[k])]
containsIgnoreCase(t, p) == contains(lowerString(t), lowerString(p))

\* end of the maximal run of characters of the set cs that starts at i
\* (i - 1 when t[i] is not in cs)
RECURSIVE runEnd(_, _, _)
runEnd(t, i, cs) ==
  IF i <= Len(t) /\ t[i] \in cs THEN runEnd(t, i + 1, cs) ELSE i - 1

\* tNoDD: t.replace(/\$\$[\s\S]*?\$\$/g, '') from index i on
RECURSIVE stripDoubleDollarFrom(_, _)
stripDoubleDollarFrom(t, i) ==
  LET dd == <<"$", "$">>
      j == indexOfFrom(t, dd, i)
      k == IF j = 0 THEN 0 ELSE indexOfFrom(t, dd, j + 2)
  IN IF k = 0 THEN SubSeq(t, i, Len(t))
     ELSE SubSeq(t, i, j - 1) \o stripDoubleDollarFrom(t, k + 2)

\* the loop of lines 101-107: dollars not preceded by a backslash
singles(tNoDD) ==
  Cardinality({i \in 1..Len(tNoDD) :
                 /\ tNoDD[i] = "$"
                 /\ ~(i > 1 /\ tNoDD[i - 1] = "\\")})

\* (t.match(/\\begin\{[^}]+\}/g) || []).length, likewise for \end
RECURSIVE countEnvFrom(_, _, _)
countEnvFrom(t, open, i) ==
  LET j == indexOfFrom(t, open, i)
      m == IF j = 0 THEN 0 ELSE indexOfFrom(t, <<"}">>, j + Len(open))
  IN IF j = 0 \/ m = 0 THEN 0
     ELSE IF m = j + Len(open) THEN countEnvFrom(t, open, j + 1)
     ELSE 1 + countEnvFrom(t, open, m + 1)

BeginOpen == <<"\\", "b", "e", "g", "i", "n", "{">>
EndOpen == <<"\\", "e", "n", "d", "{">>

\* as hasUnbalancedDelimiters without the \[ / \] comparison of line 111
hasUnbalancedDelimiters_noBrackets(text) ==
  IF ~Truthy(text) THEN FALSE
  ELSE LET t == text
           doubleDollar == matchCount(t, <<"$", "$">>)
           tNoDD == stripDoubleDollarFrom(t, 1)
           lp == matchCount(t, <<"\\", "(">>)
           rp == matchCount(t, <<"\\", ")">>)
           begins == countEnvFrom(t, BeginOpen, 1)
           ends == countEnvFrom(t, EndOpen, 1)
       IN IF doubleDollar % 2 # 0 THEN TRUE
          ELSE IF singles(tNoDD) % 2 # 0 THEN TRUE
          ELSE IF lp # rp THEN TRUE
          ELSE IF begins # ends THEN TRUE
          ELSE FALSE

hasUnbalancedDelimiters(text) ==
  IF ~Truthy(text) THEN FALSE
  ELSE LET t == text
           doubleDollar == matchCount(t, <<"$", "$">>)
           tNoDD == stripDoubleDollarFrom(t, 1)
           lbr == matchCount(t, <<"\\", "[">>)
           rbr == matchCount(t, <<"\\", "]">>)
           lp == matchCount(t, <<"\\", "(">>)
           rp == matchCount(t, <<"\\", ")">>)
           begins == countEnvFrom(t, BeginOpen, 1)
           ends == countEnvFrom(t, EndOpen, 1)
       IN IF doubleDollar % 2 # 0 THEN TRUE
          ELSE IF singles(tNoDD) % 2 # 0 THEN TRUE
          ELSE IF lbr # rbr THEN TRUE
          ELSE IF lp # rp THEN TRUE
          ELSE IF begins # ends THEN TRUE
          ELSE FALSE

\* balance after the first i characters, and whether it ever went negative
RECURSIVE braceBalance(_, _)
braceBalance(text, i) ==
  IF i = 0 THEN 0
  ELSE braceBalance(text, i - 1)
         + (IF text[i] = "{" THEN 1 ELSE 0)
         - (IF text[i] = "}" THEN 1 ELSE 0)

hasUnbalancedBraces(text) ==
  IF ~Truthy(text) THEN FALSE
  ELSE \/ \E i \in 1..Len(text) : braceBalance(text, i) < 0
       \/ braceBalance(text, Len(text)) # 0

shouldFallbackToPlain_never(text, strict) == FALSE

shouldFallbackToPlain(text, strict) ==
  IF ~Truthy(text) THEN FALSE
  ELSE IF strict THEN hasUnbalancedDelimiters(text) \/ hasUnbalancedBraces(text)
  ELSE hasUnbalancedDelimiters(text)

\* nodes of the rendered tree
PlainNode(className, text) ==
  [kind |-> "plain", className |-> className, text |-> text]
MathJaxNode(className, text) ==
  [kind |-> "mathjax", className |-> className, text |-> text]
MarkdownNode(className, text) ==
  [kind |-> "markdown", className |-> className, text |-> text]
CommentNode(text) == [kind |-> "comment", text |-> text]
SpacerNode == [kind |-> "spacer"]
LoadingSpinner == [kind |-> "spinner"]

\* last index of the line that holds index i
lineEnd(t, i) ==
  LET n == indexOfFrom(t, <<"\n">>, i)
  IN IF n = 0 THEN Len(t) ELSE n - 1

\* s.replace(/\s+#.*$/gm, '') from index i on
RECURSIVE stripMathCommentsFrom(_, _)
stripMathCommentsFrom(t, i) ==
  IF i > Len(t) THEN <<>>
  ELSE IF t[i] \in WhitespaceChars
    THEN LET e == runEnd(t, i, WhitespaceChars)
         IN IF e + 1 <= Len(t) /\ t[e + 1] = "#"
              THEN stripMathCommentsFrom(t, lineEnd(t, e + 1) + 1)
              ELSE SubSeq(t, i, e) \o stripMathCommentsFrom(t, e + 1)
  ELSE <<t[i]>> \o stripMathCommentsFrom(t, i + 1)
stripMathComments(t) == stripMathCommentsFrom(t, 1)

escapeHash(t) == replaceAll(t, <<"#">>, <<"\\", "#">>)

hasDelimiters(cleaned) ==
  \/ contains(cleaned, <<"\\", "[">>)
  \/ contains(cleaned, <<"\\", "]">>)
  \/ contains(cleaned, <<"\\", "(">>)
  \/ contains(cleaned, <<"\\", ")">>)
  \/ contains(cleaned, <<"$", "$">>)
  \/ contains(cleaned, <<"$">>)
  \/ contains(cleaned, <<"\\", "b", "e", "g", "i", "n", "{">>)
  \/ contains(cleaned, <<"\\", "e", "n", "d", "{">>)

DisplayOpen == <<"\\", "[", " ">>
DisplayClose == <<" ", "\\", "]">>

renderLatexBlock(text, className) ==
  IF ~Truthy(text) THEN <<>>
  ELSE LET cleaned == escapeHash(stripMathComments(text))
           body == replaceAll(cleaned, <<"\n">>, <<" ", "\\", "\\", " ">>)
           wrapped == IF hasDelimiters(cleaned) THEN body
                      ELSE DisplayOpen \o body \o DisplayClose
       IN <<MathJaxNode(className, wrapped)>>

\* the alternatives of mathTokens, in the order of the regular expression;
\* in the literal, \\b is a backslash followed by the letter b, and the last
\* three alternatives are a backslash, N followed by a backslash, and the
\* empty pattern
\* as isMathyLine when the last alternatives of mathTokens are not there
isMathyLine_noTail(text) ==
  IF ~Truthy(text) THEN FALSE
  ELSE \/ \E i \in 1..Len(text) :
            text[i] \in {"LE", "GE", "=", "SUM", "FORALL", "IN", "TIMES"}
       \/ containsIgnoreCase(text, <<"\\", "b", "m", "i", "n", "i", "m", "i",
                                     "z", "e", "\\", "b">>)
       \/ containsIgnoreCase(text, <<"\\", "b", "m", "a", "x", "i", "m", "i",
                                     "z", "e", "\\", "b">>)
       \/ containsIgnoreCase(text, <<"\\", "b", "s", "u", "b", "j", "e", "c",
                                     "t", " ", "t", "o", "\\", "b">>)
       \/ containsIgnoreCase(text, <<"\\", "b", "x", "[">>)
       \/ containsIgnoreCase(text, <<"\\", "b", "c", "[">>)
       \/ containsIgnoreCase(text, <<"\\", "b", "u", "[">>)

isMathyLine(text) ==
  IF ~Truthy(text) THEN FALSE
  ELSE \/ \E i \in 1..Len(text) :
            text[i] \in {"LE", "GE", "=", "SUM", "FORALL", "IN", "TIMES"}
       \/ containsIgnoreCase(text, <<"\\", "b", "m", "i", "n", "i", "m", "i",
                                     "z", "e", "\\", "b">>)
       \/ containsIgnoreCase(text, <<"\\", "b", "m", "a", "x", "i", "m", "i",
                                     "z", "e", "\\", "b">>)
       \/ containsIgnoreCase(text, <<"\\", "b", "s", "u", "b", "j", "e", "c",
                                     "t", " ", "t", "o", "\\", "b">>)
       \/ containsIgnoreCase(text, <<"\\", "b", "x", "[">>)
       \/ containsIgnoreCase(text, <<"\\", "b", "c", "[">>)
       \/ containsIgnoreCase(text, <<"\\", "b", "u", "[">>)
       \/ containsIgnoreCase(text, <<"\\">>)
       \/ containsIgnoreCase(text, <<"N", "\\">>)
       \/ containsIgnoreCase(text, <<>>)

\* t.replace(/([A-Za-z]+)\[([^\]]+)\]\[([^\]]+)\]/g, '$1_{$2,$3}') from i on
RECURSIVE replaceDoubleIndexFrom(_, _)
replaceDoubleIndexFrom(t, i) ==
  IF i > Len(t) THEN <<>>
  ELSE LET e == runEnd(t, i, Letters)
           m == IF e >= i /\ e + 1 <= Len(t) /\ t[e + 1] = "["
                  THEN indexOfFrom(t, <<"]">>, e + 2) ELSE 0
           n == IF m > e + 2 /\ m + 1 <= Len(t) /\ t[m + 1] = "["
                  THEN indexOfFrom(t, <<"]">>, m + 2) ELSE 0
       IN IF n > m + 2
            THEN SubSeq(t, i, e) \o <<"_", "{">> \o SubSeq(t, e + 2, m - 1)
                   \o <<",">> \o SubSeq(t, m + 2, n - 1) \o <<"}">>
                   \o replaceDoubleIndexFrom(t, n + 1)
            ELSE <<t[i]>> \o replaceDoubleIndexFrom(t, i + 1)

\* t.replace(/([A-Za-z]+)\[([^\]]+)\]/g, '$1_{$2}') from i on
RECURSIVE replaceSingleIndexFrom(_, _)
replaceSingleIndexFrom(t, i) ==
  IF i > Len(t) THEN <<>>
  ELSE LET e == runEnd(t, i, Letters)
           m == IF e >= i /\ e + 1 <= Len(t) /\ t[e + 1] = "["
                  THEN indexOfFrom(t, <<"]">>, e + 2) ELSE 0
       IN IF m > e + 2
            THEN SubSeq(t, i, e) \o <<"_", "{">> \o SubSeq(t, e + 2, m - 1)
                   \o <<"}">> \o replaceSingleIndexFrom(t, m + 1)
            ELSE <<t[i]>> \o replaceSingleIndexFrom(t, i + 1)

\* t.replace(/\s\*\s/g, ' \\cdot ') from i on
RECURSIVE replaceAsteriskFrom(_, _)
replaceAsteriskFrom(t, i) ==
  IF i > Len(t) THEN <<>>
  ELSE IF /\ i + 2 <= Len(t)
          /\ t[i] \in WhitespaceChars
          /\ t[i + 1] = "*"
          /\ t[i + 2] \in WhitespaceChars
    THEN <<" ", "\\", "c", "d", "o", "t", " ">> \o replaceAsteriskFrom(t, i + 3)
  ELSE <<t[i]>> \o replaceAsteriskFrom(t, i + 1)

toLatex(text) ==
  IF ~Truthy(text) THEN <<>>
  ELSE LET t1 == replaceAll(text, <<"LE">>, <<" ", "\\", "l", "e", " ">>)
           t2 == replaceAll(t1, <<"GE">>, <<" ", "\\", "g", "e", " ">>)
           t3 == replaceAll(t2, <<"SUM">>, <<" ", "\\", "s", "u", "m", " ">>)
           t4 == replaceAll(t3, <<"FORALL">>,
                            <<" ", "\\", "f", "o", "r", "a", "l", "l", " ">>)
           t5 == replaceAll(t4, <<"IN">>, <<" ", "\\", "i", "n", " ">>)
           t6 == replaceAll(t5, <<"REALS">>,
                            <<" ", "\\", "m", "a", "t", "h", "b", "b", "{",
                              "R", "}", " ">>)
           t7 == replaceAll(t6, <<"INTS">>,
                            <<" ", "\\", "m", "a", "t", "h", "b", "b", "{",
                              "Z", "}", " ">>)
           t8 == replaceAll(t7, <<"TIMES">>,
                            <<" ", "\\", "c", "d", "o", "t", " ">>)
           t9 == replaceSingleIndexFrom(replaceDoubleIndexFrom(t8, 1), 1)
       IN replaceAsteriskFrom(t9, 1)

\* text.split(/\n/)
RECURSIVE splitLinesFrom(_, _)
splitLinesFrom(t, i) ==
  LET n == indexOfFrom(t, <<"\n">>, i)
  IN IF n = 0 THEN <<SubSeq(t, i, Len(t))>>
     ELSE <<SubSeq(t, i, n - 1)>> \o splitLinesFrom(t, n + 1)
splitLines(t) == splitLinesFrom(t, 1)

\* line.match(/^(.*?)(?:\s+#\s*(.*))?$/): index of the whitespace that opens
\* the trailing comment, 0 if the line has none
commentStart(line) ==
  LET opens == {i \in 1..Len(line) :
                  /\ line[i] \in WhitespaceChars
                  /\ LET e == runEnd(line, i, WhitespaceChars)
                     IN e + 1 <= Len(line) /\ line[e + 1] = "#"}
  IN IF opens = {} THEN 0 ELSE CHOOSE i \in opens : \A j \in opens : i <= j

mathPart(line) ==
  IF commentStart(line) = 0 THEN line
  ELSE SubSeq(line, 1, commentStart(line) - 1)

commentPart(line) ==
  IF commentStart(line) = 0 THEN <<>>
  ELSE LET hash == runEnd(line, commentStart(line), WhitespaceChars) + 1
           e == runEnd(line, hash + 1, WhitespaceChars)
       IN SubSeq(line, e + 1, Len(line))

renderLine(line) ==
  IF \A k \in 1..Len(line) : line[k] \in WhitespaceChars
    THEN <<SpacerNode>>
  ELSE IF isMathyLine(mathPart(line))
    THEN LET latex == escapeHash(toLatex(mathPart(line)))
         IN <<MathJaxNode("constraint", DisplayOpen \o latex \o DisplayClose)>>
              \o (IF Truthy(commentPart(line))
                    THEN <<CommentNode(<<"#", " ">> \o commentPart(line))>>
                    ELSE <<>>)
  ELSE <<MarkdownNode("variables", line)>>

RECURSIVE renderLines(_)
renderLines(lines) ==
  IF Len(lines) = 0 THEN <<>>
  ELSE renderLine(Head(lines)) \o renderLines(Tail(lines))

renderFormulationString(text) ==
  IF ~Truthy(text) THEN <<>>
  ELSE renderLines(splitLines(text))

\* the formulation of message.content: null while pending, a string, or an
\* object with objective, constraints and variables
StructuredFormulation(objective, constraints, variables) ==
  [tag |-> "object", objective |-> objective, constraints |-> constraints,
   variables |-> variables]

\* lines 210-214: a plain-text formulation
formulationBox_ignoreSource(text, source) ==
  IF shouldFallbackToPlain(text, FALSE)
    THEN <<PlainNode("variables", text)>>
  ELSE renderFormulationString(text)

formulationBox(text, source) ==
  IF source # "default" THEN <<PlainNode("variables", text)>>
  ELSE IF shouldFallbackToPlain(text, FALSE)
    THEN <<PlainNode("variables", text)>>
  ELSE renderFormulationString(text)

\* lines 219-223, 230-234, 241-245: one field of a structured formulation
fieldBox(text, className, source) ==
  IF source # "default" THEN <<PlainNode(className, text)>>
  ELSE IF shouldFallbackToPlain(text, FALSE)
    THEN <<PlainNode(className, text)>>
  ELSE renderLatexBlock(text, className)

formulationSection(content) ==
  LET formulation == content.formulation
      source == content.source
  IN IF formulation = Null THEN <<<<LoadingSpinner>>>>
     ELSE IF formulation.tag = "text"
       THEN IF Truthy(formulation.chars)
              THEN <<formulationBox(formulation.chars, source)>>
              ELSE <<>>
     ELSE <<fieldBox(formulation.objective, "formula", source)>>
            \o [k \in 1..Len(formulation.constraints) |->
                  fieldBox(formulation.constraints[k], "constraint", source)]
            \o <<fieldBox(formulation.variables, "variables", source)>>

\* the solution of message.content: null while pending, a string, or an
\* object with variables (key/value pairs), objective and details
StructuredSolution(variables, objective, details) ==
  [tag |-> "object", variables |-> variables, objective |-> objective,
   details |-> details]

\* <ReactMarkdown remarkPlugins={[remarkMath]} rehypePlugins={[rehypeKatex]}>
KatexMarkdownNode(className, text) ==
  [kind |-> "markdown-katex", className |-> className, text |-> text]

\* lines 290-321: the solution section is one box of nodes
solutionSection(content) ==
  LET solution == content.solution
  IN IF solution = Null THEN <<LoadingSpinner>>
     ELSE IF solution.tag = "text"
       THEN IF Truthy(solution.chars)
              THEN <<KatexMarkdownNode("solution-details", solution.chars)>>
              ELSE <<>>
     ELSE [k \in 1..(2 * Len(solution.variables)) |->
             IF k % 2 = 1
               THEN PlainNode("solution-label", solution.variables[(k + 1) \div 2][1])
               ELSE PlainNode("solution-value", solution.variables[k \div 2][2])]
            \o <<PlainNode("objective-value", solution.objective),
                 PlainNode("solution-details", solution.details)>>

(***************************************************************************)
(* The Message component on its own: it is handed one content object and   *)
(* renders it once.                                                        *)
(***************************************************************************)
DelimiterChars == {"\\", "[", "]", "$"}
LineChars == {"x", " ", "#", "\n"}
ScenarioText == <<"\\", "[", " ", "x", " ", "+", " ", "y">>
SampleTexts ==
  {<<>>,
   ScenarioText,
   <<"\\", "[", " ", "x", " ", "\\", "]">>,
   <<"$", "$", "x", "$", "$">>,
   <<"\\", "b", "e", "g", "i", "n", "{", "a", "}", "x">>,
   <<"x", "[", "i", "]", " ", "LE", " ", "1", " ", "#", " ", "c">>,
   <<"x", " ", "=", " ", "{">>}
\* texts built around one \[ ... \] or $$ ... $$ span
SpanFillers ==
  {<<>>, <<" ", "x", " ">>, <<"$">>, <<"\\", "(">>, <<"\\", "]">>}
SpanTexts ==
  {pre \o d[1] \o body \o d[2] \o post :
     pre \in SpanFillers, body \in SpanFillers, post \in SpanFillers,
     d \in {<<<<"\\", "[">>, <<"\\", "]">>>>, <<<<"$", "$">>, <<"$", "$">>>>}}
\* "minimize x_1 + x_2 subject to x_1 + x_2 LE 10"
MinimizeLine ==
  <<"m", "i", "n", "i", "m", "i", "z", "e", " ", "x", "_", "1", " ", "+",
    " ", "x", "_", "2", " ", "s", "u", "b", "j", "e", "c", "t", " ", "t",
    "o", " ", "x", "_", "1", " ", "+", " ", "x", "_", "2", " ", "LE", " ",
    "1", "0">>
\* lines for the token rewrite: "a * * b", "x \le 1", "a[b[c]][d]"
RewriteLines ==
  {<<"a", " ", "*", " ", "*", " ", "b">>,
   <<"x", " ", "\\", "l", "e", " ", "1">>,
   <<"a", "[", "b", "[", "c", "]", "]", "[", "d", "]">>}
\* lines with a keyword or a bracketed index and no glyph
KeywordLines ==
  {<<"m", "i", "n", "i", "m", "i", "z", "e", " ", "z">>,
   <<"M", "a", "x", "i", "m", "i", "z", "e", " ", "z">>,
   <<"z", " ", "s", "u", "b", "j", "e", "c", "t", " ", "t", "o">>,
   <<"y", "[", "i", "]">>,
   <<"y", "[", "i", "]", "[", "j", "]">>}
\* texts of several lines: a display span that opens and closes on lines of
\* its own, and a span that lies within one line
MultiLineTexts ==
  {<<"\\", "[", "\n", "x", "\n", "\\", "]">>,
   <<"x", "\n", "\\", "[", " ", "x", " ", "\\", "]">>}
RenderTexts ==
  SampleTexts
    \cup MultiLineTexts
    \cup SpanTexts
    \cup {MinimizeLine}
    \cup RewriteLines
    \cup KeywordLines
    \cup UNION {[1..n -> DelimiterChars] : n \in 0..MaxRenderLen}
    \cup UNION {[1..n -> LineChars] : n \in 0..MaxRenderLen}
\* texts of structured fields, and texts of a solution
FieldTexts ==
  {<<>>,
   ScenarioText,
   <<"\\", "[", " ", "x", " ", "\\", "]">>,
   <<"x", "[", "i", "]", " ", "LE", " ", "1", " ", "#", " ", "c">>}
SolutionTexts == SampleTexts \cup {<<"$">>, <<"$", "x", "$">>}
Sources == {"api", "default", "undefined"}
SolutionVariables == {<<>>, <<<<<<"x">>, <<"1">>>>>>}
ConstraintLists == UNION {[1..n -> FieldTexts] : n \in 0..MaxConstraints}
\* a content whose formulation has arrived (the solution is still pending),
\* or one whose solution has arrived
Contents ==
  {[formulation |-> f, solution |-> Null, source |-> src] :
     f \in {Null}
           \cup {Text(t) : t \in RenderTexts}
           \cup {StructuredFormulation(o, cs, v) :
                   o \in FieldTexts, cs \in ConstraintLists, v \in FieldTexts},
     src \in Sources}
  \cup
  {[formulation |-> Null, solution |-> sol, source |-> src] :
     sol \in {Text(t) : t \in SolutionTexts}
             \cup {StructuredSolution(vs, o, d) :
                     vs \in SolutionVariables, o \in FieldTexts,
                     d \in FieldTexts},
     src \in Sources}

sessionVars ==
  <<initialProblem, defaultAnswers, messages, input, isLoading,
    originalQuestion, initialMessageSent, clock, runs, started>>

RenderInit ==
  /\ initialProblem = CHOOSE p \in Problems : TRUE
  /\ defaultAnswers = CHOOSE d \in DefaultAnswerFiles : TRUE
  /\ messages = <<>>
  /\ input = <<>>
  /\ isLoading = FALSE
  /\ originalQuestion = <<>>
  /\ initialMessageSent = FALSE
  /\ clock = 0
  /\ runs = <<>>
  /\ started = 0
  /\ shown \in Contents
  /\ dom = NotRendered
  /\ solutionDom = NotRendered[1]
  /\ taxonomy = Null
  /\ taxonomyPath = NotNormalized

renderMessage ==
  /\ dom = NotRendered
  /\ dom' = formulationSection(shown)
  /\ solutionDom' = solutionSection(shown)
  /\ UNCHANGED shown

RenderNext == renderMessage /\ UNCHANGED <<sessionVars, normalizerVars>>

RenderSpec == RenderInit /\ [][RenderNext]_vars

(***************************************************************************)
(* transformTaxonomy on its own: it is handed the taxonomy of one insight   *)
(* record and returns the display path.                                    *)
(***************************************************************************)
Category == "General Formulation"
Subcategory == "Variable Definition"
Leaf == "Continuous vs. Discrete Confusion"
TaxonomyKeys == {Category, Subcategory}
LeafNames == {Leaf, "Other"}
LeafLists == UNION {[1..n -> LeafNames] : n \in 0..MaxLeaves}
\* an object with one entry, or with two entries under different keys
ObjectsOver(values) ==
  {Obj(<<>>)}
    \cup {Obj(<<<<k, v>>>>) : k \in TaxonomyKeys, v \in values}
    \cup UNION {{Obj(<<<<k1, v1>>, <<k2, v2>>>>) :
                   k2 \in TaxonomyKeys \ {k1}, v1 \in values, v2 \in values} :
                 k1 \in TaxonomyKeys}
LeafLevel == {Arr(l) : l \in LeafLists} \cup {Obj(<<>>)}
SubcategoryLevel == LeafLevel \cup ObjectsOver(LeafLevel)
Taxonomies ==
  {Str("Variable Definition > Other")}
    \cup {v \in SubcategoryLevel : v.tag = "object"}
    \cup {Obj(<<<<k, v>>>>) :
            k \in {"Root", Category}, v \in SubcategoryLevel}
    \cup {Obj(<<<<"Root", Obj(<<<<Category, v>>>>)>>>>) : v \in SubcategoryLevel}

TaxonomyInit ==
  /\ initialProblem = CHOOSE p \in Problems : TRUE
  /\ defaultAnswers = CHOOSE d \in DefaultAnswerFiles : TRUE
  /\ messages = <<>>
  /\ input = <<>>
  /\ isLoading = FALSE
  /\ originalQuestion = <<>>
  /\ initialMessageSent = FALSE
  /\ clock = 0
  /\ runs = <<>>
  /\ started = 0
  /\ shown = NoContent
  /\ dom = NotRendered
  /\ solutionDom = NotRendered[1]
  /\ taxonomy \in Taxonomies
  /\ taxonomyPath = NotNormalized

normalizeTaxonomy ==
  /\ taxonomyPath = NotNormalized
  /\ taxonomyPath' = transformTaxonomy(taxonomy)
  /\ UNCHANGED taxonomy

TaxonomyNext == normalizeTaxonomy /\ UNCHANGED <<sessionVars, messageVars>>

TaxonomySpec == TaxonomyInit /\ [][TaxonomyNext]_vars

(***************************************************************************)
(* Properties.                                                             *)
(***************************************************************************)
Runs == {runs[i] : i \in DOMAIN runs}
LatestRun == runs[Len(runs)]
EntriesOf(r) ==
  {k \in DOMAIN messages :
     messages[k].id = r.id /\ messages[k].type = "assistant"}
LatestPayload(r) ==
  IF Len(r.payloads) = 0 THEN PendingContent ELSE r.payloads[Len(r.payloads)]
Failed(r) == r.failure # "none"

StageOrdered(c) ==
  /\ c.formulation # Null => c.insights # Null
  /\ c.code # Null => c.formulation # Null
  /\ c.solution # Null => c.code # Null

\* C1: in every reachable state, in every assistant entry, no later stage
\* field is non-null while an earlier stage field of the entry is null.
C1_StageOrder ==
  \A k \in DOMAIN messages :
    messages[k].type = "assistant" => StageOrdered(messages[k].content)

\* an assistant entry filled up to formulation, with code still to come
C1_Witness ==
  \E k \in DOMAIN messages :
    /\ messages[k].type = "assistant"
    /\ messages[k].content.insights # Null
    /\ messages[k].content.formulation # Null
    /\ messages[k].content.code = Null

KeepsFilled(p, q) ==
  /\ p.insights # Null => q.insights # Null
  /\ p.formulation # Null => q.formulation # Null
  /\ p.code # Null => q.code # Null
  /\ p.solution # Null => q.solution # Null
AllFilled(p) ==
  p.insights # Null /\ p.formulation # Null /\ p.code # Null
    /\ p.solution # Null
StagesCompleted(r) ==
  IF r.pc = "done" THEN 4 ELSE IF r.stage = 0 THEN 0 ELSE r.stage - 1

\* C2: a run without failure has called the progress callback once per
\* completed stage (4 times when all four stages succeeded), each payload
\* keeps the fields already non-null, the 4th payload has all four fields
\* non-null, and the entry of the run holds the latest payload (it is pending
\* before the first), so it changed once per stage completion.
C2_ProgressPerStage ==
  \A r \in Runs :
    ~Failed(r) =>
      /\ Len(r.payloads) = StagesCompleted(r)
      /\ \A j \in 1..(Len(r.payloads) - 1) :
           KeepsFilled(r.payloads[j], r.payloads[j + 1])
      /\ r.pc = "done" => AllFilled(r.payloads[4])
      /\ EntriesOf(r) # {}
      /\ \A k \in EntriesOf(r) : messages[k].content = LatestPayload(r)

\* a remote run whose four stage requests succeeded
C2_Witness ==
  \E r \in Runs : r.pc = "done" /\ r.source = "api" /\ Len(r.payloads) = 4

RequestsInOrder(r) ==
  IF r.source = "api"
    THEN /\ Len(r.requests) = r.stage
         /\ \A j \in DOMAIN r.requests :
              r.requests[j].url = "/api/solve/" \o Stages[j]
    ELSE r.requests = <<FileRequest>>

\* C3: a run has requested the stages up to its current one, each once and
\* in order; once a stage request of a run has failed the run is settled and
\* its list of issued requests never grows again.
C3_HaltOnFailure ==
  /\ [](\A r \in Runs : RequestsInOrder(r) /\ (Failed(r) => ~InFlight(r)))
  /\ [][\A r \in Runs :
          Failed(r) =>
            \A j \in DOMAIN runs' :
              runs'[j].n = r.n =>
                runs'[j].requests = r.requests /\ ~InFlight(runs'[j])]_vars

\* a remote run that failed at its formulation request
C3_Witness ==
  \E r \in Runs :
    Failed(r) /\ r.source = "api" /\ r.stage = 2 /\ Len(r.requests) = 2

\* C4: when stage k of a run failed, the entry of the run has the fields of
\* stage k and of the later stages set to the placeholder: formulation =
\* "Error", code = "", solution = an object of status "Error" with a
\* non-empty details message.
C4_ErrorPlaceholders ==
  \A r \in Runs :
    Failed(r) =>
      /\ EntriesOf(r) # {}
      /\ \A k \in EntriesOf(r) :
           LET c == messages[k].content
           IN /\ r.stage <= 2 => c.formulation = Str("Error")
              /\ r.stage <= 3 => c.code = Str("")
              /\ c.solution.tag = "object"
              /\ c.solution.status = "Error"
              /\ c.solution.details # ""

\* a remote run that failed at its code stage
C4_Witness ==
  \E r \in Runs : Failed(r) /\ r.source = "api" /\ r.stage = 3

\* C5: when a stage of a run failed, every stage field filled before the
\* failure still holds, in the entry of the run, the value it was filled
\* with.
C5_FilledFieldsKept ==
  \A r \in Runs :
    Failed(r) =>
      \A k \in EntriesOf(r) :
        LET c == messages[k].content
        IN /\ r.result.insights # Null => c.insights = r.result.insights
           /\ r.result.formulation # Null
                => c.formulation = r.result.formulation
           /\ r.result.code # Null => c.code = r.result.code

\* C6: whatever the cause of the failure (transport, status, body, missing
\* canned record) and whatever the stage, the run is settled, the entry of
\* the run holds the one error content, and the failing step starts no run
\* and issues no request.
C6_UniformFailure ==
  /\ [](\A r \in Runs :
          Failed(r) =>
            /\ r.failure \in {"transport", "status", "body", "data"}
            /\ r.pc = "failed"
            /\ EntriesOf(r) # {}
            /\ \A k \in EntriesOf(r) : messages[k].content = ErrorContent)
  /\ [][\A i \in DOMAIN runs :
          (~Failed(runs[i]) /\ i \in DOMAIN runs' /\ runs'[i].n = runs[i].n
             /\ Failed(runs'[i]))
            => /\ started' = started
               /\ Len(runs') = Len(runs)
               /\ runs'[i].requests = runs[i].requests]_vars

\* a canned run that failed because the record is missing
C6_Witness ==
  \E r \in Runs : r.failure = "data" /\ r.source = "default"

\* C7: at most one run is in flight; a run is started only when no run is in
\* flight, a run started by submit is the first run of the session, and the
\* flag guarding the automatic submission is never reset.
C7_OneInFlight ==
  /\ [](Cardinality({i \in DOMAIN runs : InFlight(runs[i])}) <= 1)
  /\ [][started' # started =>
          /\ \A r \in Runs : ~InFlight(r)
          /\ runs'[Len(runs')].kind = "submit" => started = 0]_vars
  /\ [][initialMessageSent => initialMessageSent']_vars

\* a run started by regenerate is in flight, alone
C7_Witness ==
  /\ started >= 2
  /\ Len(runs) = 1
  /\ InFlight(LatestRun)
  /\ LatestRun.kind = "regenerate"

SupersededInFlight == \E r \in Runs : InFlight(r) /\ r.n < started

\* C8 (as amended): a run in flight is never aborted by a later step, and no
\* run is superseded while in flight: the only run that can still deliver a
\* response is the most recently started one.
C8_NoSupersededRun ==
  /\ [](~SupersededInFlight)
  /\ [][\A r \in Runs :
          InFlight(r) => \E j \in DOMAIN runs' : runs'[j].n = r.n]_vars

\* regenerate has started a new run after an earlier run of the session
C8_Witness ==
  /\ started >= 2
  /\ InFlight(LatestRun)
  /\ LatestRun.kind = "regenerate"
  /\ Len(LatestRun.payloads) >= 1

\* C8 (as stated): a run superseded by regenerate is still in flight at some
\* point, so that its response can arrive after the new run has started.
C8_StaleResponse == <>SupersededInFlight

\* C9: a step of regenerate finds an assistant entry last, keeps the length
\* of the conversation, leaves every other entry unchanged and puts last one
\* assistant entry with four null stage fields, the new run having delivered
\* nothing yet.
C9_RegenerateReplacesLast ==
  [][(started' = started + 1 /\ runs'[Len(runs')].kind = "regenerate") =>
       LET n == Len(messages)
       IN /\ n >= 1
          /\ messages[n].type = "assistant"
          /\ Len(messages') = n
          /\ \A k \in 1..(n - 1) : messages'[k] = messages[k]
          /\ messages'[n].type = "assistant"
          /\ messages'[n].content = PendingContent
          /\ runs'[Len(runs')].payloads = <<>>]_vars

\* regenerate has just replaced the answer of a two-entry conversation
C9_Witness ==
  /\ started >= 2
  /\ LatestRun.kind = "regenerate"
  /\ LatestRun.payloads = <<>>
  /\ Len(messages) = 2
  /\ messages[1].type = "user"
  /\ messages[2].content = PendingContent

\* C10: submit stores the text of the user entry it appends as the original
\* question, and every request of a remote run started by regenerate carries
\* that stored, non-empty text, which is not the content of the input field.
C10_RegenerateUsesStoredQuestion ==
  /\ [](\A r \in Runs :
          (r.kind = "regenerate" /\ r.source = "api") =>
            /\ Truthy(originalQuestion)
            /\ \A j \in DOMAIN r.requests :
                 r.requests[j].problem = originalQuestion)
  /\ [][(started' = started + 1 /\ runs'[Len(runs')].kind = "submit") =>
          messages'[Len(messages') - 1] =
            UserMessage(messages'[Len(messages') - 1].id, originalQuestion')]_vars

\* a remote run started by regenerate has issued its second request
C10_Witness ==
  \E r \in Runs :
    /\ r.kind = "regenerate"
    /\ r.source = "api"
    /\ Len(r.requests) >= 2
    /\ input # originalQuestion

\* C11: a step of submit that starts a run carries a non-empty text, appends
\* a user entry with that text and then an assistant entry with four null
\* stage fields, and starts exactly one run, bound to that assistant entry.
C11_SubmitAppendsPair ==
  [][(started' = started + 1 /\ runs'[Len(runs')].kind = "submit") =>
       LET n == Len(messages)
           new == runs'[Len(runs')]
       IN /\ Truthy(new.text)
          /\ new.text \in {initialProblem.description, trim(input)}
          /\ Len(messages') = n + 2
          /\ \A k \in 1..n : messages'[k] = messages[k]
          /\ messages'[n + 1].type = "user"
          /\ messages'[n + 1].content = Text(new.text)
          /\ messages'[n + 2].type = "assistant"
          /\ messages'[n + 2].content = PendingContent
          /\ messages'[n + 2].id = new.id
          /\ Len(runs') = Len(unsettled(runs)) + 1
          /\ new.payloads = <<>>]_vars

\* submit has just appended the user entry and the pending assistant entry
C11_Witness ==
  /\ started = 1
  /\ LatestRun.kind = "submit"
  /\ LatestRun.payloads = <<>>
  /\ Len(messages) = 2
  /\ messages[1].type = "user"
  /\ messages[2].type = "assistant"
  /\ messages[2].content = PendingContent

\* C12: submit is a no-op for a text that is empty after trimming: whenever
\* an entry was appended or a run was started, the submitted text is
\* non-empty after trimming.
C12_BlankSubmitIsNoOp ==
  (Len(messages) > 0 \/ started > 0) =>
    /\ Truthy(trim(originalQuestion))
    /\ \A r \in Runs : Truthy(trim(r.text))

\* C13: a remote run requests the stages in the order insights, formulation,
\* code, solution, and the request of stage k+1 exists only once the result
\* of stage k was merged and notified: while the run is in flight exactly one
\* request is outstanding, and none once it is settled.
C13_SequentialStages ==
  \A r \in Runs :
    r.source = "api" =>
      /\ \A j \in DOMAIN r.requests :
           r.requests[j].url = "/api/solve/" \o Stages[j]
      /\ Len(r.requests) <= Len(r.payloads) + 1
      /\ InFlight(r) => Len(r.requests) = Len(r.payloads) + 1
      /\ r.pc = "done" => Len(r.requests) = Len(r.payloads)
      /\ \A j \in DOMAIN r.requests :
           j >= 2 => /\ r.payloads[j - 1].insights # Null
                     /\ j >= 3 => r.payloads[j - 1].formulation # Null
                     /\ j >= 4 => r.payloads[j - 1].code # Null

\* a remote run waiting for its code stage, two stages merged
C13_Witness ==
  \E r \in Runs :
    /\ r.source = "api"
    /\ InFlight(r)
    /\ Len(r.requests) = 3
    /\ Len(r.payloads) = 2

\* C14: every request of a remote run carries the text and the flag of the
\* first request of the run; the flag is false in a run started by submit
\* and true in a run started by regenerate.
C14_SameTextAndFlag ==
  \A r \in Runs :
    r.source = "api" =>
      \A j \in DOMAIN r.requests :
        /\ r.requests[j].problem = r.requests[1].problem
        /\ r.requests[j].regenerate = (r.kind = "regenerate")

\* a remote run started by regenerate has issued its four requests
C14_Witness ==
  \E r \in Runs :
    r.source = "api" /\ r.kind = "regenerate" /\ Len(r.requests) = 4

\* C15: the runs of the problem of number id 1 use the canned source and
\* issue no stage request; the runs of every other problem use the remote
\* source, never fetch nor read the canned record.
C15_CannedOnlyForFixedId ==
  \A r \in Runs :
    IF initialProblem.id = NumId(1)
      THEN r.source = "default" /\ r.requests = <<FileRequest>>
      ELSE /\ r.source = "api"
           /\ r.answer = Null
           /\ \A j \in DOMAIN r.requests : r.requests[j] # FileRequest

\* the ad-hoc problem was answered by the remote source, after a regeneration
C15_Witness ==
  /\ initialProblem.id = CustomId
  /\ started >= 2
  /\ LatestRun.source = "api"
  /\ LatestRun.pc = "done"

FilledCount(p) ==
  Cardinality({f \in {"insights", "formulation", "code", "solution"} :
                 p[f] # Null})

\* C16: in a canned run every timer has the delay of 3000 ms, every reveal
\* follows one timer of its own (one more timer than reveals while a timer
\* runs, as many otherwise), the j-th reveal shows exactly j fields, and the
\* run is done after four timers.
C16_CannedSchedule ==
  \A r \in Runs :
    r.source = "default" =>
      /\ \A j \in DOMAIN r.timers : r.timers[j] = 3000
      /\ Len(r.timers) = Len(r.payloads) + (IF r.pc = "timer" THEN 1 ELSE 0)
      /\ r.pc = "done" => Len(r.timers) = 4
      /\ r.pc = "timer" => r.answer # Null
      /\ \A j \in DOMAIN r.payloads :
           FilledCount(r.payloads[j]) = j /\ StageOrdered(r.payloads[j])

\* a canned run revealed its solution after four timers
C16_Witness ==
  \E r \in Runs :
    r.source = "default" /\ r.pc = "done" /\ Len(r.timers) = 4

EntryState(c) ==
  IF c = ErrorContent THEN "ERROR"
  ELSE IF c.solution # Null THEN "SOLUTION_FILLED"
  ELSE IF c.code # Null THEN "CODE_FILLED"
  ELSE IF c.formulation # Null THEN "FORMULATION_FILLED"
  ELSE IF c.insights # Null THEN "INSIGHTS_FILLED"
  ELSE "PENDING"

EntryTransitions ==
  {<<"PENDING", "INSIGHTS_FILLED">>,
   <<"INSIGHTS_FILLED", "FORMULATION_FILLED">>,
   <<"FORMULATION_FILLED", "CODE_FILLED">>,
   <<"CODE_FILLED", "SOLUTION_FILLED">>}
    \cup {<<a, "ERROR">> : a \in {"PENDING", "INSIGHTS_FILLED",
                                  "FORMULATION_FILLED", "CODE_FILLED"}}

\* C17: as long as no handler replaces it, an assistant entry either keeps
\* its content or moves along PENDING, INSIGHTS_FILLED, FORMULATION_FILLED,
\* CODE_FILLED, SOLUTION_FILLED, or from a non-terminal state to ERROR; in
\* SOLUTION_FILLED and in ERROR its content never changes.
C17_EntryStateMachine ==
  [][\A k \in DOMAIN messages :
       (messages[k].type = "assistant" /\ started' = started) =>
         /\ k \in DOMAIN messages'
         /\ messages'[k].id = messages[k].id
         /\ \/ messages'[k].content = messages[k].content
            \/ <<EntryState(messages[k].content),
                 EntryState(messages'[k].content)>> \in EntryTransitions]_vars

\* the entry of a regenerated run has reached ERROR from CODE_FILLED
C17_Witness ==
  /\ started >= 2
  /\ Failed(LatestRun)
  /\ LatestRun.stage = 4
  /\ \E k \in EntriesOf(LatestRun) :
       EntryState(messages[k].content) = "ERROR"

\* C18: in a state where the run has ended in ERROR the only step is a
\* regenerate, and the run it starts is new: pending entry, empty result,
\* nothing received, and its first request is the first one of the source
\* (the insights request for the remote source).
C18_RegenerateRestarts ==
  [][(\E r \in Runs : Failed(r)) =>
       /\ started' = started + 1
       /\ LET new == runs'[Len(runs')]
          IN /\ new.kind = "regenerate"
             /\ new.after = "failed"
             /\ new.payloads = <<>>
             /\ new.received = <<>>
             /\ new.result = InitialResult(new.source)
             /\ new.requests =
                  IF new.source = "api"
                    THEN <<[url |-> "/api/solve/insights",
                            problem |-> originalQuestion,
                            regenerate |-> TRUE]>>
                    ELSE <<FileRequest>>
             /\ messages'[Len(messages')].id = new.id
             /\ messages'[Len(messages')].content = PendingContent]_vars

\* a run started by regenerate after a failed run has filled its insights
C18_Witness ==
  \E r \in Runs :
    /\ r.kind = "regenerate"
    /\ r.after = "failed"
    /\ r.source = "api"
    /\ Len(r.payloads) = 1

Artifacts(r) ==
  IF r.source = "default"
    THEN <<r.answer.insights, r.answer.formulation, r.answer.code,
           r.answer.solution>>
    ELSE r.received

Reveal(a, j, source) ==
  [insights |-> transformInsights(a[1]),
   formulation |-> IF j >= 2 THEN a[2] ELSE Null,
   code |-> IF j >= 3 THEN a[3] ELSE Null,
   solution |-> IF j >= 4 THEN a[4] ELSE Null,
   source |-> source]

\* C19: whatever the source, the j-th content a run gives to its entry is
\* the same function of the four artifacts: the normalized insights and the
\* next j-1 artifacts as delivered, the rest null; only the source tag tells
\* the sources apart.
C19_SourcesInterchangeable ==
  \A r \in Runs :
    ~Failed(r) =>
      /\ r.result.source = r.source
      /\ \A j \in DOMAIN r.payloads :
           r.payloads[j] = Reveal(Artifacts(r), j, r.source)

\* a canned run has revealed a record with an insight to normalize
C19_Witness ==
  \E r \in Runs :
    /\ r.source = "default"
    /\ r.pc = "done"
    /\ r.answer.insights = Arr(<<RawInsight>>)
    /\ Len(r.payloads) = 4

\* the text of every rendered formulation field, in rendering order, and the
\* class of the element each is rendered into
FormulationFields(formulation) ==
  IF formulation.tag = "text" THEN <<formulation.chars>>
  ELSE <<formulation.objective>> \o formulation.constraints
         \o <<formulation.variables>>
FieldClass(formulation, k) ==
  IF formulation.tag = "text" THEN "variables"
  ELSE IF k = 1 THEN "formula"
  ELSE IF k = Len(formulation.constraints) + 2 THEN "variables"
  ELSE "constraint"

\* C20: formulation text (a plain-text formulation, or the objective, a
\* constraint or the variables text of a structured formulation) that the
\* safety gate judges unbalanced is rendered as exactly one plain-text node
\* holding the text unchanged; no rewritten text and no node handed to the
\* typesetting engine stands in its place.  The text "\[ x + y" is judged
\* unbalanced.
C20_UnbalancedVerbatim ==
  /\ hasUnbalancedDelimiters(ScenarioText)
  /\ (dom # NotRendered /\ shown.formulation.tag \in {"text", "object"}) =>
       \A k \in 1..Len(FormulationFields(shown.formulation)) :
         LET text == FormulationFields(shown.formulation)[k]
         IN hasUnbalancedDelimiters(text) =>
              dom[k] = <<PlainNode(FieldClass(shown.formulation, k), text)>>

C20_Witness ==
  /\ shown = [formulation |-> Text(ScenarioText), solution |-> Null,
              source |-> "default"]
  /\ dom = <<<<PlainNode("variables", ScenarioText)>>>>

\* C21: a plain-text solution reaches the math-typesetting engine only when
\* the safety gate judges it balanced; a solution text the gate judges
\* unbalanced is rendered as one plain-text node holding the text unchanged.
C21_SolutionGated ==
  (solutionDom # NotRendered[1] /\ shown.solution.tag = "text"
     /\ Truthy(shown.solution.chars)) =>
    LET text == shown.solution.chars
    IN /\ hasUnbalancedDelimiters(text) =>
            solutionDom = <<PlainNode("solution-details", text)>>
       /\ (\E k \in 1..Len(solutionDom) :
             solutionDom[k].kind \in {"markdown-katex", "mathjax"}) =>
            ~hasUnbalancedDelimiters(text)

\* the (open, close) index pairs of the complete \[ ... \] spans and of the
\* $$ ... $$ spans of a text
CompleteSpans(t) ==
  {<<i, j>> \in (1..Len(t)) \X (1..Len(t)) :
     /\ j >= i + 2
     /\ \/ startsWithAt(t, i, <<"\\", "[">>) /\ startsWithAt(t, j, <<"\\", "]">>)
        \/ startsWithAt(t, i, <<"$", "$">>) /\ startsWithAt(t, j, <<"$", "$">>)}
\* the text without the two characters of the delimiter at index j
removeDelimiter(t, j) == SubSeq(t, 1, j - 1) \o SubSeq(t, j + 2, Len(t))
DelimiterFree(t) == \A k \in 1..Len(t) : t[k] \notin {"\\", "$"}

\* C22 as stated: every formulation text that contains a complete \[ ... \]
\* span or a $$ ... $$ span is reported balanced by the safety gate, and
\* the text with the closing delimiter of the span removed is reported
\* unbalanced.
C22_SpanBalanced ==
  (/\ dom # NotRendered
   /\ shown.formulation.tag = "text"
   /\ shown.source = "default") =>
    LET t == shown.formulation.chars
    IN \A sp \in CompleteSpans(t) :
         /\ ~hasUnbalancedDelimiters(t)
         /\ hasUnbalancedDelimiters(removeDelimiter(t, sp[2]))

\* C22 amended: when the span is the only math delimiter of the text (no
\* backslash and no dollar before, inside or after it), the gate reports
\* the text balanced and reports it unbalanced once the closing delimiter
\* is removed.
C22_LoneSpanBalanced ==
  (/\ dom # NotRendered
   /\ shown.formulation.tag = "text"
   /\ shown.source = "default") =>
    LET t == shown.formulation.chars
    IN \A sp \in CompleteSpans(t) :
         (/\ DelimiterFree(SubSeq(t, 1, sp[1] - 1))
          /\ DelimiterFree(SubSeq(t, sp[1] + 2, sp[2] - 1))
          /\ DelimiterFree(SubSeq(t, sp[2] + 2, Len(t)))) =>
           /\ ~hasUnbalancedDelimiters(t)
           /\ hasUnbalancedDelimiters(removeDelimiter(t, sp[2]))

C22_Witness ==
  /\ shown.formulation = Text(<<"\\", "[", " ", "x", " ", "\\", "]">>)
  /\ shown.source = "default"
  /\ dom = <<<<MathJaxNode("constraint",
                           <<"\\", "[", " ", "\\", "[", " ", "x", " ", "\\",
                             "]", " ", "\\", "]">>)>>>>

\* "minimize x_1 + x_2 subject to x_1 + x_2 \le 10"
MinimizeLatex ==
  <<"m", "i", "n", "i", "m", "i", "z", "e", " ", "x", "_", "1", " ", "+",
    " ", "x", "_", "2", " ", "s", "u", "b", "j", "e", "c", "t", " ", "t",
    "o", " ", "x", "_", "1", " ", "+", " ", "x", "_", "2", " ", "\\", "l",
    "e", " ", "1", "0">>

\* C23: the line "minimize x_1 + x_2 subject to x_1 + x_2 LE 10" is
\* classified mathy, its rewrite is exactly MinimizeLatex (the glyph
\* replaced by \le, no character added), and the rendered line is the
\* rewrite inside one display-math delimiter pair.
C23_MinimizeScenario ==
  (/\ dom # NotRendered
   /\ shown.formulation = Text(MinimizeLine)
   /\ shown.source = "default") =>
    /\ isMathyLine(MinimizeLine)
    /\ toLatex(MinimizeLine) = MinimizeLatex
    /\ dom = <<<<MathJaxNode("constraint",
                             DisplayOpen \o MinimizeLatex \o DisplayClose)>>>>

\* the math parts of the non-blank lines of a text: what toLatex is applied to
MathParts(t) ==
  {mathPart(splitLines(t)[k]) : k \in 1..Len(splitLines(t))}
SourceTokens ==
  {"LE", "GE", "SUM", "FORALL", "IN", "REALS", "INTS", "TIMES", "[", "*"}

\* C24: the token rewrite is idempotent: for every text it is applied to,
\* rewriting the rewritten text returns it unchanged; and a text that holds
\* no glyph, bracket or asterisk (it is already in target syntax) is
\* returned unchanged.
C24_RewriteIdempotent ==
  (/\ dom # NotRendered
   /\ shown.formulation.tag = "text"
   /\ shown.source = "default") =>
    \A m \in MathParts(shown.formulation.chars) :
      /\ toLatex(toLatex(m)) = toLatex(m)
      /\ (\A k \in 1..Len(m) : m[k] \notin SourceTokens) => toLatex(m) = m

Glyphs == {"LE", "GE", "SUM", "FORALL", "IN", "REALS", "INTS", "TIMES"}
HasGlyph(m) == \E k \in 1..Len(m) : m[k] \in Glyphs
HasKeyword(m) ==
  \/ containsIgnoreCase(m, <<"m", "i", "n", "i", "m", "i", "z", "e">>)
  \/ containsIgnoreCase(m, <<"m", "a", "x", "i", "m", "i", "z", "e">>)
  \/ containsIgnoreCase(m, <<"s", "u", "b", "j", "e", "c", "t", " ", "t", "o">>)
\* a name directly followed by a non-empty [ ... ] group
HasBracketIndex(m) ==
  \E i \in 1..Len(m) : \E j \in 1..Len(m) :
    /\ m[i] \in Letters
    /\ i + 1 <= Len(m) /\ m[i + 1] = "["
    /\ j > i + 2 /\ m[j] = "]"
    /\ \A k \in (i + 2)..(j - 1) : m[k] # "]"
SingleLine(t) == ~contains(t, <<"\n">>)

\* C25: a formulation line whose math part holds one of the keywords
\* minimize, maximize, subject to, or a bracketed index on any name, and no
\* glyph, is classified mathy; rendered alone (and judged balanced), it is
\* handed to the typesetting engine.
C25_KeywordsAreMathy ==
  (/\ dom # NotRendered
   /\ shown.formulation.tag = "text"
   /\ shown.source = "default") =>
    LET t == shown.formulation.chars
    IN \A m \in MathParts(t) :
         ((HasKeyword(m) \/ HasBracketIndex(m)) /\ ~HasGlyph(m)) =>
           /\ isMathyLine(m)
           /\ (SingleLine(t) /\ ~hasUnbalancedDelimiters(t)) =>
                dom[1][1].kind = "mathjax"

C25_Witness ==
  /\ shown.formulation = Text(<<"y", "[", "i", "]", "[", "j", "]">>)
  /\ shown.source = "default"
  /\ dom = <<<<MathJaxNode("constraint",
                           <<"\\", "[", " ", "y", "_", "{", "i", ",", "j", "}",
                             " ", "\\", "]">>)>>>>

NonBlankLines(t) ==
  {splitLines(t)[k] : k \in 1..Len(splitLines(t))}
    \ {l \in {splitLines(t)[k] : k \in 1..Len(splitLines(t))} :
         \A n \in 1..Len(l) : l[n] \in WhitespaceChars}

\* C26: a non-blank formulation line that holds no glyph, no keyword and no
\* bracketed index (and no equals sign) is classified non-mathy; rendered
\* alone, it is shown as text, with no display-math delimiters added and no
\* node handed to the typesetting engine.
C26_PlainLinesStayPlain ==
  (/\ dom # NotRendered
   /\ shown.formulation.tag = "text"
   /\ shown.source = "default"
   /\ ~hasUnbalancedDelimiters(shown.formulation.chars)) =>
    LET t == shown.formulation.chars
    IN \A line \in NonBlankLines(t) :
         (/\ ~HasGlyph(line) /\ ~HasKeyword(line) /\ ~HasBracketIndex(line)
          /\ ~contains(line, <<"=">>)) =>
           /\ ~isMathyLine(mathPart(line))
           /\ SingleLine(t) => dom = <<<<MarkdownNode("variables", line)>>>>

\* the text a display-math pair is added to, or not, for a rewritten body
wrapUnlessDelimited(body) ==
  IF hasDelimiters(body) THEN body ELSE DisplayOpen \o body \o DisplayClose
\* the body handed on for a structured field: comments stripped, # escaped,
\* line breaks written as \\
blockBody(text) ==
  replaceAll(escapeHash(stripMathComments(text)), <<"\n">>,
             <<" ", "\\", "\\", " ">>)

\* C27: rewritten text gets a display-math delimiter pair only when it holds
\* no math delimiter; text that already holds one is handed to the
\* typesetting engine as it is, with no pair added.  This holds for a line
\* of a plain-text formulation (lines with an escaped dollar are left out)
\* and for a field of a structured one.
C27_WrapOnlyUndelimited ==
  (dom # NotRendered /\ shown.source = "default") =>
    /\ (/\ shown.formulation.tag = "text"
        /\ Truthy(shown.formulation.chars)
        /\ SingleLine(shown.formulation.chars)
        /\ ~contains(shown.formulation.chars, <<"\\", "$">>)
        /\ ~hasUnbalancedDelimiters(shown.formulation.chars)) =>
         LET line == shown.formulation.chars
             body == escapeHash(toLatex(mathPart(line)))
         IN (Len(dom[1]) > 0 /\ dom[1][1].kind = "mathjax") =>
              dom[1][1].text = wrapUnlessDelimited(body)
    /\ shown.formulation.tag = "object" =>
         \A k \in 1..Len(FormulationFields(shown.formulation)) :
           LET text == FormulationFields(shown.formulation)[k]
           IN (Truthy(text) /\ ~hasUnbalancedDelimiters(text)) =>
                dom[k] = <<MathJaxNode(FieldClass(shown.formulation, k),
                                       wrapUnlessDelimited(blockBody(text)))>>

HasComment(line) == commentStart(line) # 0 /\ Truthy(commentPart(line))

\* C28: for a line with a trailing comment (whitespace, then #), the
\* classification and the rewrite use the part before the comment only, and
\* the comment text follows the rendered math, so no comment text is lost;
\* for a line of a plain-text formulation and for a field of a structured
\* formulation alike.
C28_CommentKept ==
  (dom # NotRendered /\ shown.source = "default") =>
    /\ (/\ shown.formulation.tag = "text"
        /\ SingleLine(shown.formulation.chars)
        /\ HasComment(shown.formulation.chars)
        /\ Truthy(mathPart(shown.formulation.chars))
        /\ ~hasUnbalancedDelimiters(shown.formulation.chars)) =>
         LET line == shown.formulation.chars
         IN /\ Len(dom[1]) = 2
            /\ dom[1][1] =
                 MathJaxNode("constraint",
                             DisplayOpen
                               \o escapeHash(toLatex(mathPart(line)))
                               \o DisplayClose)
            /\ dom[1][2] = CommentNode(<<"#", " ">> \o commentPart(line))
    /\ shown.formulation.tag = "object" =>
         \A k \in 1..Len(FormulationFields(shown.formulation)) :
           LET text == FormulationFields(shown.formulation)[k]
           IN (/\ SingleLine(text) /\ HasComment(text)
               /\ Truthy(mathPart(text))
               /\ ~hasUnbalancedDelimiters(text)) =>
                /\ Len(dom[k]) >= 2
                /\ dom[k][1].kind = "mathjax"
                /\ \E n \in 2..Len(dom[k]) :
                     /\ dom[k][n].kind = "comment"
                     /\ dom[k][n].text = <<"#", " ">> \o commentPart(text)

\* the populated branches of a taxonomy value: for every non-empty leaf
\* list, the keys that lead to it followed by its items
RECURSIVE PopulatedBranches(_, _)
PopulatedBranches(value, path) ==
  IF value.tag = "array"
    THEN IF Len(value.items) > 0 THEN {path \o value.items} ELSE {}
  ELSE IF value.tag = "object"
    THEN UNION {PopulatedBranches(value.entries[k][2],
                                  Append(path, value.entries[k][1])) :
                  k \in 1..Len(value.entries)}
  ELSE {}

\* C29: a nested taxonomy mapping with exactly one populated branch is
\* normalized to one string: the keys along that branch except the first,
\* then the leaf-list items, joined by " > ".
C29_SingleBranchPath ==
  (/\ taxonomyPath # NotNormalized
   /\ taxonomy.tag = "object"
   /\ Cardinality(PopulatedBranches(taxonomy, <<>>)) = 1) =>
    LET branch == CHOOSE b \in PopulatedBranches(taxonomy, <<>>) : TRUE
    IN taxonomyPath = Str(join(Tail(branch)))

\* C30: a three-level mapping category -> subcategory -> [leaf] is
\* normalized to "category > subcategory > leaf", the category name first.
C30_CategoryFirst ==
  taxonomyPath # NotNormalized =>
    \A c \in TaxonomyKeys, sc \in TaxonomyKeys, l \in LeafNames :
      taxonomy = Obj(<<<<c, Obj(<<<<sc, Arr(<<l>>)>>>>)>>>>) =>
        taxonomyPath = Str(c \o " > " \o sc \o " > " \o l)

\* the top-level entries of a mapping that carry data
PopulatedEntries(value) ==
  {k \in 1..Len(value.entries) :
     PopulatedBranches(value.entries[k][2], <<value.entries[k][1]>>) # {}}
\* the segments met by always taking the first key in iteration order
RECURSIVE FirstBranch(_, _)
FirstBranch(value, path) ==
  IF value.tag = "array" THEN path \o value.items
  ELSE IF value.tag = "object" /\ Len(value.entries) > 0
    THEN FirstBranch(value.entries[1][2], Append(path, value.entries[1][1]))
  ELSE path

\* C31: when more than one top-level key of the mapping carries data, the
\* normalized path is that of the first key in iteration order (its keys
\* after the first, then its leaf items), so that it holds no segment of
\* another branch.
C31_FirstKeyWins ==
  (/\ taxonomyPath # NotNormalized
   /\ taxonomy.tag = "object"
   /\ Cardinality(PopulatedEntries(taxonomy)) > 1) =>
    taxonomyPath = Str(join(Tail(FirstBranch(taxonomy, <<>>))))

C31_Witness ==
  /\ taxonomy = Obj(<<<<Category, Arr(<<Leaf>>)>>,
                      <<Subcategory, Arr(<<"Other">>)>>>>)
  /\ taxonomyPath = Str(Leaf)

\* the one populated branch of a mapping lies behind sibling keys that hold
\* empty mappings only
RECURSIVE OnlyEmptyMappingsBeside(_)
OnlyEmptyMappingsBeside(value) ==
  IF value.tag # "object" THEN value.tag = "array" /\ Len(value.items) > 0
  ELSE /\ Cardinality(PopulatedEntries(value)) = 1
       /\ \A k \in 1..Len(value.entries) :
            IF k \in PopulatedEntries(value)
              THEN OnlyEmptyMappingsBeside(value.entries[k][2])
              ELSE value.entries[k][2] = Obj(<<>>)

\* C32: when the mapping has exactly one populated branch and its other
\* keys hold empty mappings, the normalized path is that of the populated
\* branch, wherever its keys stand in the iteration order.
C32_PopulatedKeyFollowed ==
  (/\ taxonomyPath # NotNormalized
   /\ taxonomy.tag = "object"
   /\ OnlyEmptyMappingsBeside(taxonomy)) =>
    \A branch \in PopulatedBranches(taxonomy, <<>>) :
      taxonomyPath = Str(join(Tail(branch)))

\* C35: the entries of the conversation have pairwise distinct ids, for any
\* non-decreasing clock readings at submit and regenerate (checked on the
\* sessions served by the remote service, where no timer separates the
\* readings).
C35_DistinctIds ==
  ~useDefaultAnswer =>
    \A j \in 1..Len(messages) : \A k \in 1..Len(messages) :
      j # k => messages[j].id # messages[k].id

\* C34: a progress update or an error update of a run changes the content
\* of the assistant entry that carries the run's id and nothing else: every
\* other entry of the conversation is the same before and after the update
\* (checked on the sessions served by the remote service).
C34_UpdateFrame ==
  [][(/\ ~useDefaultAnswer
      /\ started' = started
      /\ Len(messages') = Len(messages)) =>
       \A k \in 1..Len(messages) :
         messages'[k] # messages[k] =>
           /\ messages[k].type = "assistant"
           /\ messages'[k] = [messages[k] EXCEPT !.content = messages'[k].content]
           /\ \E i \in DOMAIN runs : runs[i].id = messages[k].id]_vars

\* the run numbered n is in the given condition
RunInFlight(n) == \E r \in Runs : r.n = n /\ InFlight(r)
RunSettled(n) ==
  \E r \in Runs :
    /\ r.n = n
    /\ r.pc \in {"done", "failed"}
    /\ ~isLoading
    /\ hasAnswer
    /\ \A k \in 1..Len(messages) :
         (messages[k].type = "assistant" /\ messages[k].id = r.id) =>
           AllFilled(messages[k].content)

\* C36: when every issued request and every timer eventually completes,
\* every started run eventually ends with its solution filled or in error,
\* with the loading flag cleared, regenerate available and no stage field
\* of its entry null.
C36_RunsSettle ==
  \A n \in 1..MaxRuns : RunInFlight(n) ~> RunSettled(n)

C36_Witness ==
  /\ Len(runs) > 0
  /\ LatestRun.kind = "regenerate"
  /\ LatestRun.pc = "failed"
  /\ RunSettled(LatestRun.n)
  /\ started = MaxRuns

\* the insight records an entry shows
InsightsShown(m) ==
  IF m.type = "assistant" /\ m.content.insights.tag = "array"
    THEN m.content.insights.items ELSE <<>>

\* C33: the taxonomy path an entry shows for an insight is the string derived
\* from the raw mapping when the insights result was ingested, it is the same
\* string in every later snapshot of the entry that shows the insight, and
\* normalizing it again returns it unchanged.
C33_PathDerivedOnce ==
  /\ [](\A k \in 1..Len(messages) :
          \A i \in 1..Len(InsightsShown(messages[k])) :
            LET path == InsightsShown(messages[k])[i].taxonomy
            IN /\ path = transformTaxonomy(RawInsight.taxonomy)
               /\ transformTaxonomy(path) = path)
  /\ [][\A k \in 1..Len(messages) :
          (k <= Len(messages') /\ messages'[k].id = messages[k].id) =>
            \A i \in 1..Len(InsightsShown(messages[k])) :
              i <= Len(InsightsShown(messages'[k])) =>
                InsightsShown(messages'[k])[i].taxonomy
                  = InsightsShown(messages[k])[i].taxonomy]_vars

C33_Witness ==
  \E k \in 1..Len(messages) :
    /\ Len(InsightsShown(messages[k])) = 1
    /\ InsightsShown(messages[k])[1].taxonomy.tag = "string"
    /\ AllFilled(messages[k].content)
    /\ messages[k].content.solution # Null
    /\ ~isLoading

\* every closing delimiter among the first i characters is preceded by an
\* opening one that is not yet closed: the depth never goes below zero
RECURSIVE bracketDepth(_, _, _, _)
bracketDepth(t, open, close, i) ==
  IF i = 0 THEN 0
  ELSE LET before == bracketDepth(t, open, close, i - 1)
       IN IF i >= 2 /\ startsWithAt(t, i - 1, open) THEN before + 1
          ELSE IF i >= 2 /\ startsWithAt(t, i - 1, close) THEN before - 1
          ELSE before
WellNested(t, open, close) ==
  \A i \in 0..Len(t) : bracketDepth(t, open, close, i) >= 0

\* C39: a text the gate reports balanced has its \[ \] and \( \) delimiters
\* well nested: every closing one is preceded by a matching opening one that
\* is not yet closed.
C39_BalancedIsWellNested ==
  (/\ dom # NotRendered
   /\ shown.formulation.tag = "text"
   /\ shown.source = "default"
   /\ ~hasUnbalancedDelimiters(shown.formulation.chars)) =>
    /\ WellNested(shown.formulation.chars, <<"\\", "[">>, <<"\\", "]">>)
    /\ WellNested(shown.formulation.chars, <<"\\", "(">>, <<"\\", ")">>)

\* C38: formulation text of an entry whose source tag is not the canned one
\* (a remote-source entry, or an error placeholder, which carries no source
\* tag) is rendered verbatim: each text is exactly one plain-text node
\* holding it unchanged, whatever it contains.
C38_OnlyCannedTypeset ==
  /\ "source" \notin DOMAIN ErrorContent
  /\ (/\ dom # NotRendered
      /\ shown.formulation.tag \in {"text", "object"}
      /\ shown.source # "default") =>
       IF shown.formulation.tag = "text" /\ ~Truthy(shown.formulation.chars)
         THEN dom = <<>>
       ELSE /\ Len(dom) = Len(FormulationFields(shown.formulation))
            /\ \A k \in 1..Len(dom) :
                 dom[k] = <<PlainNode(FieldClass(shown.formulation, k),
                                      FormulationFields(shown.formulation)[k])>>

C38_Witness ==
  /\ shown.source = "undefined"
  /\ shown.formulation = Text(MinimizeLine)
  /\ dom = <<<<PlainNode("variables", MinimizeLine)>>>>

\* C37: every string handed to the typesetting engine is itself judged
\* balanced by the gate: when the formulation text of a canned-source entry
\* passes the gate as a whole, each string built from it (per line, wrapped
\* in \[ ... \]) and rendered as a math node is balanced too.
C37_EngineInputBalanced ==
  (/\ dom # NotRendered
   /\ shown.formulation.tag = "text"
   /\ shown.source = "default"
   /\ ~hasUnbalancedDelimiters(shown.formulation.chars)) =>
    \A b \in 1..Len(dom) : \A k \in 1..Len(dom[b]) :
      dom[b][k].kind = "mathjax" => ~hasUnbalancedDelimiters(dom[b][k].text)

====
